---------------------------- MODULE Spec2Model ----------------------------
(***************************************************************************)
(* Warehouse inventory chatbot (src/main.py): the per-user conversation    *)
(* controller, the entity resolver over the document store, and the        *)
(* bounded per-user history.                                               *)
(*                                                                         *)
(* Texts are TLA+ strings; the string functions the code uses (lower,      *)
(* strip, startswith, endswith, replace, isdigit) are computed character   *)
(* by character.  ObjectIds are abbreviated to short hexadecimal strings.  *)
(***************************************************************************)
EXTENDS Integers, Sequences, FiniteSets, TLC

VARIABLES
    sectors,              \* db.sectors, in natural (insertion) order
    warehouses,           \* db.warehouses, in natural order
    logdatas,             \* db.logdatas, in insertion order
    conversation_states,  \* dict user_id -> ConversationState
    user_questions,       \* dict user_id -> deque(maxlen=10)
    user_responses,       \* dict user_id -> deque(maxlen=10)
    now,                  \* the clock read by datetime.now()
    turn,                 \* the last chat turn handled: request and outcome
    call,                 \* the last direct call of a resolver function
    requests,             \* the requests received: each one's handler and its position
    running,              \* the handler the event loop is executing (0: none)
    state_lock            \* the holder of state_lock (0: free)

vars == <<sectors, warehouses, logdatas, conversation_states, user_questions,
          user_responses, now, turn, call, requests, running, state_lock>>

-----------------------------------------------------------------------------
(* Bounds of the model *)

MaxSectors == 2
MaxWarehouses == 1
MaxTurns == 3
MaxRequests == 3
MaxHistory == 12
MaxListed == 2
MaxListTurns == 2

-----------------------------------------------------------------------------
(* Python string functions *)

None == "None"

CharAt(s, i) == SubSeq(s, i, i)

LowerChar(c) ==
    CASE c = "A" -> "a" [] c = "B" -> "b" [] c = "C" -> "c" [] c = "D" -> "d"
      [] c = "E" -> "e" [] c = "F" -> "f" [] c = "G" -> "g" [] c = "H" -> "h"
      [] c = "I" -> "i" [] c = "J" -> "j" [] c = "K" -> "k" [] c = "L" -> "l"
      [] c = "M" -> "m" [] c = "N" -> "n" [] c = "O" -> "o" [] c = "P" -> "p"
      [] c = "Q" -> "q" [] c = "R" -> "r" [] c = "S" -> "s" [] c = "T" -> "t"
      [] c = "U" -> "u" [] c = "V" -> "v" [] c = "W" -> "w" [] c = "X" -> "x"
      [] c = "Y" -> "y" [] c = "Z" -> "z" [] OTHER -> c

\* str.lower(), one half of the text after the other
RECURSIVE Lower(_)
Lower(s) ==
    IF Len(s) <= 1 THEN LowerChar(s)
    ELSE Lower(SubSeq(s, 1, Len(s) \div 2))
           \o Lower(SubSeq(s, Len(s) \div 2 + 1, Len(s)))

IsSpaceChar(c) == c \in {" ", "\t", "\n", "\r"}

IsDigitChar(c) == c \in {"0", "1", "2", "3", "4", "5", "6", "7", "8", "9"}

RECURSIVE LStrip(_)
LStrip(s) == IF s # "" /\ IsSpaceChar(Head(s)) THEN LStrip(Tail(s)) ELSE s

RECURSIVE RStrip(_)
RStrip(s) ==
    IF s # "" /\ IsSpaceChar(CharAt(s, Len(s)))
    THEN RStrip(SubSeq(s, 1, Len(s) - 1))
    ELSE s

Strip(s) == RStrip(LStrip(s))

StartsWith(s, p) == Len(s) >= Len(p) /\ SubSeq(s, 1, Len(p)) = p

EndsWith(s, p) == Len(s) >= Len(p) /\ SubSeq(s, Len(s) - Len(p) + 1, Len(s)) = p

\* str.replace(old, new): every non-overlapping occurrence, left to right.
RECURSIVE Replace(_, _, _)
Replace(s, old, new) ==
    IF s = "" THEN ""
    ELSE IF StartsWith(s, old)
         THEN new \o Replace(SubSeq(s, Len(old) + 1, Len(s)), old, new)
         ELSE Head(s) \o Replace(Tail(s), old, new)

IsDigit(s) == s # "" /\ \A i \in 1..Len(s) : IsDigitChar(CharAt(s, i))

\* ObjectId(hex): equal for hex strings that differ only in letter case.
ObjectId(user_id) == Lower(user_id)

-----------------------------------------------------------------------------
(* The document store: queries *)

\* Collection.find(filter) is SelectSeq: the matching documents in natural
\* order; find_one returns the first of them.

\* Tier 1 of parse_sector_id: exact name, owner, not deleted.
SectorExact(sector_name, object_id) ==
    SelectSeq(sectors, LAMBDA s : /\ s.name = sector_name
                             /\ s.creator = object_id
                             /\ s.deleted = FALSE)

\* Tier 2: the anchored, escaped name as a case-insensitive regex.
SectorIgnoreCase(sector_name, object_id) ==
    SelectSeq(sectors, LAMBDA s : /\ Lower(s.name) = Lower(sector_name)
                             /\ s.creator = object_id
                             /\ s.deleted = FALSE)

\* db.sectors.find({"creator": object_id, "deleted": False})
SectorsOf_anyOwner(object_id) ==
    SelectSeq(sectors, LAMBDA s : s.deleted = FALSE)

SectorsOf(object_id) ==
    SelectSeq(sectors, LAMBDA s : s.creator = object_id /\ s.deleted = FALSE)

\* Tier 3: only for a name that starts with "Sector "; the first of the user's
\* sectors whose name ends with what is left of the name.
SectorBySuffix(sector_name, object_id) ==
    IF StartsWith(sector_name, "Sector ")
    THEN LET sector_num == Strip(Replace(sector_name, "Sector ", ""))
         IN  SelectSeq(SectorsOf(object_id), LAMBDA s : EndsWith(s.name, sector_num))
    ELSE <<>>

\* The body of parse_sector_id's try block: the documents the tiers leave in
\* `sector` (its first element is the one returned).
SectorTiers(sector_name, object_id) ==
    LET exact == SectorExact(sector_name, object_id)
        ignore_case == SectorIgnoreCase(sector_name, object_id)
    IN  IF exact # <<>> THEN exact
        ELSE IF ignore_case # <<>> THEN ignore_case
        ELSE SectorBySuffix(sector_name, object_id)

\* parse_sector_id; `raises`: a query of the try block raised (store
\* unavailable), which the except clause turns into None.
parse_sector_id(sector_name, user_id, raises) ==
    IF raises THEN None
    ELSE LET sector == SectorTiers(sector_name, ObjectId(user_id))
         IN  IF sector = <<>> THEN None ELSE sector[1]._id

WarehouseMatch_anyOwner(warehouse_name, sector_id, object_id) ==
    SelectSeq(warehouses, LAMBDA w : /\ Lower(w.name) = Lower(warehouse_name)
                                /\ w.sector = sector_id)

WarehouseMatch_anySector(warehouse_name, sector_id, object_id) ==
    SelectSeq(warehouses, LAMBDA w : /\ Lower(w.name) = Lower(warehouse_name)
                                /\ w.creator = object_id)

\* db.warehouses.find_one({name: /^name$/i, sector: sector_id, creator: ...})
WarehouseMatch(warehouse_name, sector_id, object_id) ==
    SelectSeq(warehouses, LAMBDA w : /\ Lower(w.name) = Lower(warehouse_name)
                                /\ w.sector = sector_id
                                /\ w.creator = object_id)

parse_warehouse_id(warehouse_name, sector_id, user_id, raises) ==
    IF raises THEN None
    ELSE LET warehouse == WarehouseMatch(warehouse_name, sector_id, ObjectId(user_id))
         IN  IF warehouse = <<>> THEN None ELSE warehouse[1]._id

get_user_sectors(user_id, raises) ==
    IF raises THEN <<>> ELSE SectorsOf(ObjectId(user_id))

get_user_warehouses_in_sector(user_id, sector_id, raises) ==
    IF raises THEN <<>>
    ELSE SelectSeq(warehouses, LAMBDA w : /\ w.creator = ObjectId(user_id)
                                     /\ w.sector = sector_id)

\* get_warehouse_columns: None when the query raises or finds no warehouse,
\* the warehouse's column list otherwise.
get_warehouse_columns(warehouse_id, raises) ==
    LET warehouse == SelectSeq(warehouses, LAMBDA w : w._id = warehouse_id)
    IN  IF raises \/ warehouse = <<>>
        THEN [isNone |-> TRUE, list |-> <<>>]
        ELSE [isNone |-> FALSE, list |-> warehouse[1].columns]

\* add_log_data: db.logdatas after the call; unchanged when insert_one raises.
add_log_data(warehouse_id, user_id, log_data, raises) ==
    IF raises THEN logdatas
    ELSE Append(logdatas, [warehouse |-> warehouse_id,
                           creator   |-> ObjectId(user_id),
                           logData   |-> log_data])

-----------------------------------------------------------------------------
(* Regular expressions (re.search), as far as detect_intent uses them *)

Lit(str) == [op |-> "lit", s |-> str]
Opt(str) == [op |-> "opt", s |-> str]          \* an optional literal: s?
Rep(cls, min) == [op |-> "rep", cls |-> cls, min |-> min]  \* greedy c+ or c*
Cat(rs) == [op |-> "cat", rs |-> rs]
Alt(rs) == [op |-> "alt", rs |-> rs]
Grp(k, r) == [op |-> "grp", k |-> k, r |-> r]  \* capture group k

InClass(cls, c) ==
    CASE cls = "s" -> IsSpaceChar(c)
      [] cls = "d" -> IsDigitChar(c)
      [] cls = "a" -> LowerChar(c) # c \/ c \in
             {"a", "b", "c", "d", "e", "f", "g", "h", "i", "j", "k", "l", "m",
              "n", "o", "p", "q", "r", "s", "t", "u", "v", "w", "x", "y", "z"}
      [] cls = "." -> c # "\n"

First(S) == CHOOSE i \in S : \A j \in S : i <= j

\* How many characters of the class follow position i - 1.
Run(cls, s, i) ==
    First({j \in i..(Len(s) + 1) : j > Len(s) \/ ~InClass(cls, CharAt(s, j))}) - i

LitAt(str, s, i) == i + Len(str) - 1 <= Len(s) /\ SubSeq(s, i, i + Len(str) - 1) = str

NoGroups == [k \in 1..5 |-> ""]

\* Every way r matches s from position i, in the order a backtracking matcher
\* tries them: each is the position after the match and the groups captured.
RECURSIVE Match(_, _, _, _)
RECURSIVE MatchCat(_, _, _, _, _)
RECURSIVE MatchRest(_, _, _, _)
RECURSIVE MatchAlt(_, _, _, _, _)

Match(r, s, i, g) ==
    CASE r.op = "lit" ->
           IF LitAt(r.s, s, i) THEN <<[pos |-> i + Len(r.s), g |-> g]>> ELSE <<>>
      [] r.op = "opt" ->
           (IF LitAt(r.s, s, i) THEN <<[pos |-> i + Len(r.s), g |-> g]>> ELSE <<>>)
             \o <<[pos |-> i, g |-> g]>>
      [] r.op = "rep" ->
           LET k == Run(r.cls, s, i)
           IN  IF k < r.min THEN <<>>
               ELSE [n \in 1..(k - r.min + 1) |-> [pos |-> i + k - n + 1, g |-> g]]
      [] r.op = "cat" -> MatchCat(r.rs, 1, s, i, g)
      [] r.op = "alt" -> MatchAlt(r.rs, 1, s, i, g)
      [] r.op = "grp" ->
           LET inner == Match(r.r, s, i, g)
           IN  [n \in 1..Len(inner) |->
                  [pos |-> inner[n].pos,
                   g   |-> [inner[n].g EXCEPT ![r.k] = SubSeq(s, i, inner[n].pos - 1)]]]

MatchCat(rs, k, s, i, g) ==
    IF k > Len(rs) THEN <<[pos |-> i, g |-> g]>>
    ELSE MatchRest(rs, k, s, Match(rs[k], s, i, g))

\* The matches of rs[k+1..] after each of the matches `heads` of rs[k].
MatchRest(rs, k, s, heads) ==
    IF heads = <<>> THEN <<>>
    ELSE IF Len(heads) = 1 THEN MatchCat(rs, k + 1, s, heads[1].pos, heads[1].g)
    ELSE MatchRest(rs, k, s, SubSeq(heads, 1, Len(heads) \div 2))
           \o MatchRest(rs, k, s, SubSeq(heads, Len(heads) \div 2 + 1, Len(heads)))

MatchAlt(rs, k, s, i, g) ==
    IF k > Len(rs) THEN <<>>
    ELSE Match(rs[k], s, i, g) \o MatchAlt(rs, k + 1, s, i, g)

\* re.search: the first match at the leftmost position that has one.
SearchFrom(r, s, i) ==
    LET starts == {j \in i..(Len(s) + 1) : Match(r, s, j, NoGroups) # <<>>}
    IN  IF starts = {} THEN [found |-> FALSE, g |-> NoGroups]
        ELSE [found |-> TRUE, g |-> Match(r, s, First(starts), NoGroups)[1].g]

Search(r, s) == SearchFrom(r, s, 1)

\* (\d+|[a-zA-Z]+\s*\d*) as group k
Token(k) == Grp(k, Alt(<<Rep("d", 1), Cat(<<Rep("a", 1), Rep("s", 0), Rep("d", 0)>>)>>))

ReShowSectorsList ==
    Cat(<<Lit("show"), Rep("s", 1), Rep(".", 0), Rep("s", 1), Lit("sector"),
          Opt("s"), Rep("s", 1), Lit("list")>>)

ReListSectors ==
    Cat(<<Lit("list"), Rep("s", 1), Rep(".", 0), Rep("s", 1), Lit("sectors")>>)

ReWarehousesInSector ==
    Cat(<<Lit("warehouse"), Opt("s"), Rep("s", 1), Lit("in"), Rep("s", 1),
          Lit("sector"), Rep("s", 1), Token(1)>>)

ReAddLog ==
    Cat(<<Lit("add"), Rep("s", 1), Rep(".", 0), Rep("s", 1), Lit("log"),
          Rep("s", 1), Lit("in"), Rep("s", 1), Lit("warehouse"), Rep("s", 1),
          Token(1), Rep("s", 1), Lit("in"), Rep("s", 1), Lit("sector"),
          Rep("s", 1), Token(2)>>)

ReGreeting == Alt(<<Lit("hello"), Lit("hi"), Lit("hey"), Lit("greetings")>>)

ReWhoAreYou == Cat(<<Lit("who"), Rep("s", 1), Lit("are"), Rep("s", 1), Lit("you")>>)

RePreviousQuestions ==
    Alt(<<Cat(<<Lit("previous"), Rep("s", 1), Lit("questions")>>),
          Cat(<<Lit("what"), Rep("s", 1), Lit("did"), Rep("s", 1), Lit("I"),
                Rep("s", 1), Lit("ask")>>),
          Cat(<<Lit("what"), Rep("s", 1), Lit("were"), Rep("s", 1), Lit("my"),
                Rep("s", 1), Lit("questions")>>)>>)

\* "Sector <n>" / "Warehouse <n>" for a token that is only digits.
Canonical(prefix, token) ==
    IF IsDigit(Strip(token)) THEN prefix \o Strip(token) ELSE Strip(token)

\* detect_intent with the add-log pattern tested before warehouses-in-sector.
detect_intent_AddLogFirst(text) ==
    LET message == Lower(text)
        sector_match == Search(ReWarehousesInSector, message)
        log_match == Search(ReAddLog, message)
    IN  IF Search(ReShowSectorsList, message).found \/ Search(ReListSectors, message).found
        THEN <<"list_sectors">>
        ELSE IF log_match.found
        THEN <<"add_log", Canonical("Warehouse ", log_match.g[1]),
               Canonical("Sector ", log_match.g[2])>>
        ELSE IF sector_match.found
        THEN <<"list_warehouses_in_sector", Canonical("Sector ", sector_match.g[1])>>
        ELSE IF Search(ReGreeting, message).found \/ Search(ReWhoAreYou, message).found
        THEN <<"greeting">>
        ELSE IF Search(RePreviousQuestions, message).found
        THEN <<"previous_questions">>
        ELSE <<"unknown">>

\* detect_intent: <<name>> for the intents returned as a bare string, a longer
\* tuple for those returned as a tuple.
detect_intent(text) ==
    LET message == Lower(text)
        sector_match == Search(ReWarehousesInSector, message)
        log_match == Search(ReAddLog, message)
    IN  IF Search(ReShowSectorsList, message).found \/ Search(ReListSectors, message).found
        THEN <<"list_sectors">>
        ELSE IF sector_match.found
        THEN <<"list_warehouses_in_sector", Canonical("Sector ", sector_match.g[1])>>
        ELSE IF log_match.found
        THEN <<"add_log", Canonical("Warehouse ", log_match.g[1]),
               Canonical("Sector ", log_match.g[2])>>
        ELSE IF Search(ReGreeting, message).found \/ Search(ReWhoAreYou, message).found
        THEN <<"greeting">>
        ELSE IF Search(RePreviousQuestions, message).found
        THEN <<"previous_questions">>
        ELSE <<"unknown">>

-----------------------------------------------------------------------------
(* float(str): Python's floating-point literal, without digit-group           *)
(* underscores.  A value is kept as a decimal m * 10^e with m free of         *)
(* trailing zeros, so that "50", "50.0", "+5e1" and " 50 " are one value.     *)

Digits(k) == Grp(k, Rep("d", 1))

Sign(k) == Grp(k, Alt(<<Lit("+"), Lit("-"), Lit("")>>))

ReFloat ==
    Cat(<<Sign(1),
          Alt(<<Cat(<<Digits(2), Alt(<<Cat(<<Lit("."), Grp(3, Rep("d", 0))>>), Lit("")>>)>>),
                Cat(<<Lit("."), Digits(3)>>)>>),
          Alt(<<Cat(<<Lit("e"), Sign(4), Digits(5)>>), Lit("")>>)>>)

ReInfNan ==
    Cat(<<Sign(1), Grp(2, Alt(<<Lit("infinity"), Lit("inf"), Lit("nan")>>))>>)

\* re.fullmatch: the first way r matches all of s.
FullMatch(r, s) ==
    LET ms == SelectSeq(Match(r, s, 1, NoGroups), LAMBDA m : m.pos = Len(s) + 1)
    IN  IF ms = <<>> THEN [found |-> FALSE, g |-> NoGroups]
        ELSE [found |-> TRUE, g |-> ms[1].g]

DigitVal(c) ==
    CASE c = "0" -> 0 [] c = "1" -> 1 [] c = "2" -> 2 [] c = "3" -> 3 [] c = "4" -> 4
      [] c = "5" -> 5 [] c = "6" -> 6 [] c = "7" -> 7 [] c = "8" -> 8 [] c = "9" -> 9

RECURSIVE ToInt(_)
ToInt(ds) ==
    IF ds = "" THEN 0
    ELSE 10 * ToInt(SubSeq(ds, 1, Len(ds) - 1)) + DigitVal(CharAt(ds, Len(ds)))

RECURSIVE Normal(_, _)
Normal(m, e) ==
    IF m = 0 THEN [kind |-> "finite", m |-> 0, e |-> 0]
    ELSE IF m % 10 = 0 THEN Normal(m \div 10, e + 1)
    ELSE [kind |-> "finite", m |-> m, e |-> e]

\* float(text): ok = FALSE stands for ValueError.
float(text) ==
    LET t == Lower(Strip(text))
        num == FullMatch(ReFloat, t)
        word == FullMatch(ReInfNan, t)
        sgn(x) == IF x = "-" THEN -1 ELSE 1
    IN  IF num.found
        THEN [ok |-> TRUE,
              value |-> Normal(sgn(num.g[1]) * ToInt(num.g[2] \o num.g[3]),
                               sgn(num.g[4]) * ToInt(num.g[5]) - Len(num.g[3]))]
        ELSE IF word.found
        THEN [ok |-> TRUE,
              value |-> IF word.g[2] = "nan"
                        THEN [kind |-> "nan", m |-> 0, e |-> 0]
                        ELSE [kind |-> "inf", m |-> sgn(word.g[1]), e |-> 0]]
        ELSE [ok |-> FALSE, value |-> [kind |-> "nan", m |-> 0, e |-> 0]]

-----------------------------------------------------------------------------
(* The users, the messages they send and the documents of the store *)

Users == {"a1", "b2"}

Messages ==
    {"add new log in warehouse 1 in sector 1",
     "add new log in warehouse 2 in sector 1",
     "show warehouses in sector 1",
     "hello",
     "50",
     "12.5",
     "abc"}

\* The messages of the dialog specification: add-log requests that resolve,
\* that name a sector the user does not have, or a warehouse without inventory
\* columns; a number; and the recall phrases as a user may type them.
DialogMessages ==
    {"add new log in warehouse 1 in sector 1",
     "add new log in warehouse 1 in sector 2",
     "add new log in warehouse 2 in sector 1",
     "50",
     " What were my PREVIOUS questions? ",
     "what did I ask before?"}

\* The messages of the history specification.
HistoryMessages == {"hello", "abc", " What were my PREVIOUS questions? "}

\* The messages detect_intent is tried on: phrases that each match one
\* pattern (or none), alone and in pairs.
Phrases ==
    {"Show my sectors list", "list all sectors", "warehouses in sector 2",
     "add new log in warehouse 1 in sector 1", "Hello", "who are you",
     "previous questions", "what did I ask", "what were my questions", "xyz"}

ClassifyMessages == Phrases \cup {a \o " " \o b : a, b \in Phrases}

AllMessages == Messages \cup DialogMessages \cup HistoryMessages \cup ClassifyMessages

\* detect_intent, float and lower().strip() of each message, computed once
Intents == [m \in AllMessages |-> detect_intent(m)]
Floats == [m \in AllMessages |-> float(m)]
Trimmed == [m \in AllMessages |-> Lower(Strip(m))]

Column(title, data_index) == [title |-> title, dataIndex |-> data_index, dataType |-> "number"]

ColDay == Column("Day", "day")
ColQty == Column("Quantity", "qty")
ColWeight == Column("Weight", "weight")

Sector(id, name, creator, deleted) ==
    [_id |-> id, name |-> name, creator |-> creator, deleted |-> deleted]

Warehouse(id, name, creator, sector, columns) ==
    [_id |-> id, name |-> name, creator |-> creator, sector |-> sector, columns |-> columns]

\* The store of the chat specifications: each user owns a "Sector 1" holding a
\* "Warehouse 1"; a1 also owns a warehouse with no column but the day.
ChatSectors ==
    <<Sector("5e01", "Sector 1", "a1", FALSE),
      Sector("5e02", "Sector 1", "b2", FALSE)>>

ChatWarehouses ==
    <<Warehouse("8f01", "Warehouse 1", "a1", "5e01", <<ColDay, ColQty, ColWeight>>),
      Warehouse("8f02", "Warehouse 1", "b2", "5e02", <<ColDay, ColQty>>),
      Warehouse("8f03", "Warehouse 2", "a1", "5e01", <<ColDay>>)>>

\* The documents the resolver is tried on, and the names it is asked for.
SectorDocs ==
    {Sector("5e01", "Sector 1", "a1", FALSE),
     Sector("5e02", "Sector 1", "b2", FALSE),
     Sector("5e03", "sector 1", "a1", FALSE),
     Sector("5e04", "Sector 1", "a1", TRUE),
     Sector("5e05", "Area 21", "a1", FALSE)}

SectorNames == {"Sector 1", "SECTOR 1", "area 21", "Sector 2"}

WarehouseDocs ==
    {Warehouse("8f01", "Warehouse 1", "a1", "5e01", <<ColDay, ColQty>>),
     Warehouse("8f02", "Warehouse 1", "b2", "5e02", <<ColDay, ColQty>>),
     Warehouse("8f04", "warehouse 1", "a1", "5e05", <<ColDay, ColQty>>),
     Warehouse("8f05", "Depot 21", "a1", "5e01", <<ColDay, ColQty>>)}

WarehouseNames == {"Warehouse 1", "WAREHOUSE 1"}

SectorIds == {"5e01", "5e02", "5e05"}

\* The collections of at most n of the documents, in every order
Collections(docs, n) ==
    {c \in UNION {[1..k -> docs] : k \in 0..n} :
        \A i, j \in DOMAIN c : i # j => c[i] # c[j]}

-----------------------------------------------------------------------------
(* The chat turn: chat_endpoint *)

HistoryMax == 10

\* A deque without maxlen.
DequeAppend_Unbounded(dq, x) == Append(dq, x)

\* deque(maxlen=HistoryMax).append
DequeAppend(dq, x) ==
    IF Len(dq) >= HistoryMax THEN Append(Tail(dq), x) ELSE Append(dq, x)

\* datetime.now().isoformat(), kept in the shape of a value of log_data
IsoFormat(t) == [kind |-> "datetime", m |-> t, e |-> 0]

\* ConversationState(): the defaults, log_data seeded by its default_factory
ConversationState(t) ==
    [stage                |-> "initial",
     warehouse_id         |-> None,
     sector_id            |-> None,
     pending_columns      |-> <<>>,
     current_column_index |-> 0,
     log_data             |-> [k \in {"day"} |-> IsoFormat(t)]]

\* dict[key] = value
Put(dict, key, value) ==
    [k \in DOMAIN dict \cup {key} |-> IF k = key THEN value ELSE dict[k]]

\* get_conversation_state: the dict after the get-or-create
WithSession(states, user_id, t) ==
    IF user_id \in DOMAIN states THEN states
    ELSE Put(states, user_id, ConversationState(t))

\* The history bookkeeping at the head of a turn: both deques exist, and the
\* message is appended to the questions unless it is a recall phrase.
RecallPhrases == {"what were my previous questions?", "what did i ask before?"}

WithDeque(dict, user_id) ==
    IF user_id \in DOMAIN dict THEN dict ELSE Put(dict, user_id, <<>>)

\* RecordQuestion that records the recall phrases too.
RecordQuestion_AppendsAll(questions, user_id, user_message) ==
    LET qs == WithDeque(questions, user_id)
    IN  Put(qs, user_id, DequeAppend(qs[user_id], user_message))

RecordQuestion(questions, user_id, user_message) ==
    LET qs == WithDeque(questions, user_id)
    IN  IF Trimmed[user_message] \notin RecallPhrases
        THEN Put(qs, user_id, DequeAppend(qs[user_id], user_message))
        ELSE qs

\* RecordResponse with one deque shared by every user.
RecordResponse_Shared(responses, user_id, response) ==
    [u \in DOMAIN responses |-> DequeAppend(responses[u], response)]

RecordResponse(responses, user_id, response) ==
    Put(responses, user_id, DequeAppend(responses[user_id], response))

RespSuccess == "Thanks, your log has been added successfully."
RespInvalidNumber == "Please provide a valid number for the inventory count."
RespNoSectors == "You haven't created any sectors yet."
RespNoColumns == "This warehouse doesn't have any inventory columns defined."
RespNoQuestions == "You haven't asked me any questions yet."
RespGreeting == "Hello! I'm your warehouse inventory assistant. I can help you manage sectors, warehouses, and inventory logs. What would you like to do today?"
RespUnknown == "I'm your warehouse inventory assistant. I can help with:\n- Showing your sectors list\n- Showing warehouses in a sector\n- Adding inventory logs\n\nCould you please phrase your request related to warehouse inventory management?"
RespFirstColumn(title) == "Please provide inventory count for " \o title \o "."
RespNextColumn(title) == "Thanks, now please provide inventory count for " \o title \o "."
RespSectorNotFound(sector_name) ==
    "I couldn't find Sector " \o sector_name \o " in your account."
RespWarehouseNotFound(warehouse_name, sector_name) ==
    "I couldn't find Warehouse " \o warehouse_name \o " in Sector " \o sector_name \o "."
RespNoWarehouses(sector_name) ==
    "You don't have any warehouses in Sector " \o sector_name \o "."

\* ', '.join(names)
RECURSIVE Join(_)
Join(names) ==
    IF names = <<>> THEN ""
    ELSE IF Len(names) = 1 THEN names[1]
    ELSE names[1] \o ", " \o Join(Tail(names))

Names(docs) == [i \in 1..Len(docs) |-> docs[i].name]

RECURSIVE Int2Str(_)
Int2Str(n) ==
    IF n < 10 THEN CharAt("0123456789", n + 1)
    ELSE Int2Str(n \div 10) \o CharAt("0123456789", (n % 10) + 1)

\* Numbered with the lines counted from 0.
RECURSIVE Numbered_FromZero(_, _)
Numbered_FromZero(qs, i) ==
    IF i > Len(qs) THEN ""
    ELSE Int2Str(i - 1) \o ". " \o qs[i] \o (IF i < Len(qs) THEN "\n" ELSE "")
           \o Numbered_FromZero(qs, i + 1)

\* "\n".join(f"{i+1}. {q}" for i, q in enumerate(previous_q)), from line i on
RECURSIVE Numbered(_, _)
Numbered(qs, i) ==
    IF i > Len(qs) THEN ""
    ELSE Int2Str(i) \o ". " \o qs[i] \o (IF i < Len(qs) THEN "\n" ELSE "")
           \o Numbered(qs, i + 1)

\* What a part of the handler leaves behind: the session, db.logdatas, the
\* response (None while there is none), the exception that escaped (None when
\* none did) and the function whose store query raised and was swallowed.
Outcome(st, logs, response, raised, failed) ==
    [state |-> st, logdatas |-> logs, response |-> response, raised |-> raised,
     failed |-> failed]

\* StoreValue that files the value under the title of the column.
StoreValue_UnderTitle(st, value) ==
    LET title == st.pending_columns[st.current_column_index + 1].title
    IN  [st EXCEPT !.log_data = Put(st.log_data, title, value),
                   !.current_column_index = st.current_column_index + 1]

\* StoreValue that takes the column from the head of the pending columns and
\* removes it.
StoreValue_DropsColumn(st, value) ==
    [st EXCEPT !.log_data = Put(st.log_data, st.pending_columns[1].dataIndex, value),
               !.pending_columns = Tail(st.pending_columns)]

\* Lines 347-355: store the parsed value under the current column's dataIndex
\* and advance the cursor.  The session is left untouched by an IndexError.
StoreValue(st, value) ==
    LET data_index == st.pending_columns[st.current_column_index + 1].dataIndex
    IN  [st EXCEPT !.log_data = Put(st.log_data, data_index, value),
                   !.current_column_index = st.current_column_index + 1]

\* ResetState that leaves log_data as the sub-dialog filled it.
ResetState_KeepsRecord(st, t) ==
    [st EXCEPT !.stage = "initial",
               !.warehouse_id = None,
               !.sector_id = None,
               !.pending_columns = <<>>,
               !.current_column_index = 0]

\* Lines 366-372: back to the defaults, log_data reseeded with the time of the
\* reset.
ResetState(st, t) ==
    [st EXCEPT !.stage = "initial",
               !.warehouse_id = None,
               !.sector_id = None,
               !.pending_columns = <<>>,
               !.current_column_index = 0,
               !.log_data = [k \in {"day"} |-> IsoFormat(t)]]

\* Collect with a reply that is not a number taken as a skipped column.
Collect_SkipsOnInvalid(st, user_id, user_message, fault, t) ==
    IF Floats[user_message].ok \/ st.current_column_index + 1 >= Len(st.pending_columns)
    THEN Outcome(st, logdatas, RespInvalidNumber, None, None)
    ELSE Outcome([st EXCEPT !.current_column_index = st.current_column_index + 1],
                 logdatas, RespInvalidNumber, None, None)

\* Lines 342-386: a turn that finds the session collecting inventory.
Collect(st, user_id, user_message, fault, t) ==
    LET parsed == Floats[user_message]
        stored == StoreValue(st, parsed.value)
        raises == fault = "add_log_data"
    IN  IF ~parsed.ok
        THEN Outcome(st, logdatas, RespInvalidNumber, None, None)
        ELSE IF st.current_column_index >= Len(st.pending_columns)
        THEN Outcome(st, logdatas, None, "IndexError", None)
        ELSE IF stored.current_column_index >= Len(stored.pending_columns)
        THEN Outcome(ResetState(stored, t),
                     add_log_data(stored.warehouse_id, user_id, stored.log_data, raises),
                     RespSuccess, None,
                     IF raises THEN "add_log_data" ELSE None)
        ELSE Outcome(stored, logdatas,
                     RespNextColumn(stored.pending_columns[stored.current_column_index + 1].title),
                     None, None)

\* Lines 393-408
ListWarehouses(st, user_id, sector_name, fault) ==
    LET sector_id == parse_sector_id(sector_name, user_id, fault = "parse_sector_id")
        ws == get_user_warehouses_in_sector(user_id, sector_id,
                                            fault = "get_user_warehouses_in_sector")
    IN  IF sector_id = None
        THEN Outcome(st, logdatas, RespSectorNotFound(sector_name), None,
                     IF fault = "parse_sector_id" THEN fault ELSE None)
        ELSE IF ws = <<>>
        THEN Outcome(st, logdatas, RespNoWarehouses(sector_name), None,
                     IF fault = "get_user_warehouses_in_sector" THEN fault ELSE None)
        ELSE Outcome(st, logdatas,
                     "Warehouses in " \o sector_name \o " are: " \o Join(Names(ws)) \o ".",
                     None, None)

\* InventoryColumns that keeps the day column.
InventoryColumns_KeepsDay(columns) == columns

\* [col for col in columns if col["dataIndex"] != "day"]
InventoryColumns(columns) == SelectSeq(columns, LAMBDA col : col.dataIndex # "day")

\* AddLog that notes the sector in the session as soon as it is resolved.
AddLog_KeepsSector(st, user_id, warehouse_name, sector_name, fault) ==
    LET sector_id == parse_sector_id(sector_name, user_id, fault = "parse_sector_id")
    IN  IF sector_id = None
        THEN Outcome(st, logdatas, RespSectorNotFound(sector_name), None,
                     IF fault = "parse_sector_id" THEN fault ELSE None)
        ELSE Outcome([st EXCEPT !.sector_id = sector_id], logdatas,
                     RespWarehouseNotFound(warehouse_name, sector_name), None,
                     IF fault = "parse_warehouse_id" THEN fault ELSE None)

\* Lines 410-440
AddLog(st, user_id, warehouse_name, sector_name, fault) ==
    LET sector_id == parse_sector_id(sector_name, user_id, fault = "parse_sector_id")
        warehouse_id == parse_warehouse_id(warehouse_name, sector_id, user_id,
                                           fault = "parse_warehouse_id")
        columns == get_warehouse_columns(warehouse_id, fault = "get_warehouse_columns")
        inventory_columns == InventoryColumns(columns.list)
    IN  IF sector_id = None
        THEN Outcome(st, logdatas, RespSectorNotFound(sector_name), None,
                     IF fault = "parse_sector_id" THEN fault ELSE None)
        ELSE IF warehouse_id = None
        THEN Outcome(st, logdatas, RespWarehouseNotFound(warehouse_name, sector_name),
                     None, IF fault = "parse_warehouse_id" THEN fault ELSE None)
        ELSE IF columns.isNone
        THEN \* iterating None: a TypeError nothing catches
             Outcome(st, logdatas, None, "TypeError",
                     IF fault = "get_warehouse_columns" THEN fault ELSE None)
        ELSE IF inventory_columns = <<>>
        THEN Outcome(st, logdatas, RespNoColumns, None, None)
        ELSE Outcome([st EXCEPT !.stage = "collecting_inventory",
                                !.warehouse_id = warehouse_id,
                                !.sector_id = sector_id,
                                !.pending_columns = inventory_columns,
                                !.current_column_index = 0],
                     logdatas, RespFirstColumn(inventory_columns[1].title), None, None)

\* Lines 443-449
ListSectors(st, user_id, fault) ==
    LET secs == get_user_sectors(user_id, fault = "get_user_sectors")
    IN  IF secs = <<>>
        THEN Outcome(st, logdatas, RespNoSectors, None,
                     IF fault = "get_user_sectors" THEN fault ELSE None)
        ELSE Outcome(st, logdatas,
                     "Your created sectors are: " \o Join(Names(secs)) \o ".", None, None)

\* Lines 454-466; `questions` already holds this turn's message
PreviousQuestions(st, user_id, questions) ==
    IF questions[user_id] = <<>>
    THEN Outcome(st, logdatas, RespNoQuestions, None, None)
    ELSE Outcome(st, logdatas,
                 "Your previous questions were:\n" \o Numbered(questions[user_id], 1),
                 None, None)

\* Lines 388-470: a turn that finds the session in any other stage.
Dispatch(st, user_id, user_message, fault, questions) ==
    LET intent == Intents[user_message]
    IN  IF Len(intent) > 1
        THEN IF intent[1] = "list_warehouses_in_sector"
             THEN ListWarehouses(st, user_id, intent[2], fault)
             ELSE AddLog(st, user_id, intent[2], intent[3], fault)
        ELSE IF intent[1] = "list_sectors" THEN ListSectors(st, user_id, fault)
        ELSE IF intent[1] = "greeting" THEN Outcome(st, logdatas, RespGreeting, None, None)
        ELSE IF intent[1] = "previous_questions"
        THEN PreviousQuestions(st, user_id, questions)
        ELSE Outcome(st, logdatas, RespUnknown, None, None)

\* Handle that classifies the message first and takes it as a reply of the
\* sub-dialog only when it has no intent.
Handle_ClassifiesFirst(st, user_id, user_message, fault, questions, t) ==
    IF st.stage = "collecting_inventory" /\ Intents[user_message][1] = "unknown"
    THEN Collect(st, user_id, user_message, fault, t)
    ELSE Dispatch(st, user_id, user_message, fault, questions)

\* The body of chat_endpoint after the session is fetched.
Handle(st, user_id, user_message, fault, questions, t) ==
    IF st.stage = "collecting_inventory"
    THEN Collect(st, user_id, user_message, fault, t)
    ELSE Dispatch(st, user_id, user_message, fault, questions)

Faults ==
    {None, "parse_sector_id", "parse_warehouse_id", "get_warehouse_columns",
     "get_user_warehouses_in_sector", "get_user_sectors", "add_log_data"}

EmptyDict == [k \in {} |-> None]

NoTurn == [user_id |-> None, message |-> None, response |-> None,
           raised |-> None, failed |-> None]

NoCall == [fn |-> None, name |-> None, sector_id |-> None, user_id |-> None,
           raises |-> FALSE, result |-> None]

\* One request to POST /chat, handled from its first line to its return (or to
\* the exception that escapes it).  `fault` names the function whose store
\* query raises during this turn, if any.
HandleTurn(user_id, user_message, fault) ==
    /\ \E t \in {now + 1} :
       \E questions \in {RecordQuestion(user_questions, user_id, user_message)} :
       \E states \in {WithSession(conversation_states, user_id, t)} :
       \E out \in {Handle(states[user_id], user_id, user_message, fault, questions, t)} :
          /\ now' = t
          /\ user_questions' = questions
          /\ conversation_states' = Put(states, user_id, out.state)
          /\ logdatas' = out.logdatas
          /\ user_responses' =
                IF out.raised = None
                THEN RecordResponse(WithDeque(user_responses, user_id), user_id,
                                    out.response)
                ELSE WithDeque(user_responses, user_id)
          /\ turn' = [user_id |-> user_id, message |-> user_message,
                      response |-> out.response, raised |-> out.raised,
                      failed |-> out.failed]
    /\ UNCHANGED <<sectors, warehouses, call, running, state_lock>>

ChatTurn(user_id, user_message, fault) ==
    /\ now < MaxTurns
    /\ HandleTurn(user_id, user_message, fault)
    /\ UNCHANGED requests

Init ==
    /\ sectors = ChatSectors
    /\ warehouses = ChatWarehouses
    /\ logdatas = <<>>
    /\ conversation_states = EmptyDict
    /\ user_questions = EmptyDict
    /\ user_responses = EmptyDict
    /\ now = 0
    /\ turn = NoTurn
    /\ call = NoCall
    /\ requests = <<>>
    /\ running = 0
    /\ state_lock = 0

Next == \E u \in Users, m \in Messages, f \in Faults : ChatTurn(u, m, f)

Spec == Init /\ [][Next]_vars

-----------------------------------------------------------------------------
(* The dialog while the store changes: another writer of the database        *)
(* replaces the columns of a warehouse between two chat turns                *)

EditedColumns == <<ColWeight, ColDay, ColQty>>

EditColumns(i) ==
    /\ now < MaxTurns
    /\ warehouses[i].columns # EditedColumns
    /\ warehouses' = [warehouses EXCEPT ![i].columns = EditedColumns]
    /\ UNCHANGED <<sectors, logdatas, conversation_states, user_questions,
                   user_responses, now, turn, call, requests, running, state_lock>>

NextDialog ==
    \/ \E u \in Users, m \in DialogMessages : ChatTurn(u, m, None)
    \/ \E i \in 1..Len(warehouses) : EditColumns(i)

SpecDialog == Init /\ [][NextDialog]_vars

-----------------------------------------------------------------------------
(* The history of one user over many turns; `requests` keeps every request   *)
(* handled, with the response it got                                         *)

LoggedTurn(user_id, user_message) ==
    /\ Len(requests) < MaxHistory
    /\ HandleTurn(user_id, user_message, None)
    /\ requests' = Append(requests, [user_id |-> user_id, message |-> user_message,
                                     pc |-> "done", response |-> turn'.response])

NextHistory == \E m \in HistoryMessages : LoggedTurn("a1", m)

SpecHistory == Init /\ [][NextHistory]_vars

-----------------------------------------------------------------------------
(* The read-only requests of one user on any store: its sectors and the       *)
(* warehouses of a sector, asked for once and again                          *)

\* a1 has two warehouses in its sector 5e01 and one in 5e05; b2 has one in the
\* sector 5e01 of a1.
ListedWarehouseDocs ==
    {Warehouse("8f01", "Warehouse 1", "a1", "5e01", <<ColDay, ColQty>>),
     Warehouse("8f05", "Depot 21", "a1", "5e01", <<ColDay, ColQty>>),
     Warehouse("8f04", "warehouse 1", "a1", "5e05", <<ColDay, ColQty>>),
     Warehouse("8f06", "Annex", "b2", "5e01", <<ColDay, ColQty>>)}

ListMessages == {"Show my sectors list", "show warehouses in sector 1"}

ListFaults ==
    {None, "get_user_sectors", "parse_sector_id", "get_user_warehouses_in_sector"}

ListTurn(user_id, user_message, fault) ==
    /\ now < MaxListTurns
    /\ HandleTurn(user_id, user_message, fault)
    /\ UNCHANGED requests

InitList ==
    /\ sectors \in Collections(SectorDocs, MaxSectors)
    /\ warehouses \in Collections(ListedWarehouseDocs, MaxListed)
    /\ logdatas = <<>>
    /\ conversation_states = EmptyDict
    /\ user_questions = EmptyDict
    /\ user_responses = EmptyDict
    /\ now = 0
    /\ turn = NoTurn
    /\ call = NoCall
    /\ requests = <<>>
    /\ running = 0
    /\ state_lock = 0

NextList == \E m \in ListMessages, f \in ListFaults : ListTurn("a1", m, f)

SpecList == InitList /\ [][NextList]_vars

-----------------------------------------------------------------------------
(* The sub-dialog of two users on any store: warehouses of one user in the    *)
(* sector of the other, and warehouses in a deleted sector                   *)

StoredWarehouseDocs ==
    {Warehouse("8f01", "Warehouse 1", "a1", "5e01", <<ColDay, ColQty>>),
     Warehouse("8f02", "Warehouse 1", "b2", "5e02", <<ColDay, ColQty>>),
     Warehouse("8f06", "Warehouse 1", "b2", "5e01", <<ColDay, ColQty>>),
     Warehouse("8f07", "Warehouse 1", "a1", "5e04", <<ColDay, ColQty>>),
     Warehouse("8f08", "Warehouse 1", "a1", "5e02", <<ColDay, ColQty>>)}

StoreMessages == {"add new log in warehouse 1 in sector 1", "50"}

InitStore ==
    /\ sectors \in Collections(SectorDocs, MaxSectors)
    /\ warehouses \in Collections(StoredWarehouseDocs, MaxWarehouses)
    /\ logdatas = <<>>
    /\ conversation_states = EmptyDict
    /\ user_questions = EmptyDict
    /\ user_responses = EmptyDict
    /\ now = 0
    /\ turn = NoTurn
    /\ call = NoCall
    /\ requests = <<>>
    /\ running = 0
    /\ state_lock = 0

NextStore == \E u \in Users, m \in StoreMessages : ChatTurn(u, m, None)

SpecStore == InitStore /\ [][NextStore]_vars

-----------------------------------------------------------------------------
(* The resolver on its own: parse_sector_id and parse_warehouse_id called     *)
(* with any name (as /test-sector and /test-warehouses do) on any store       *)

CallSector(sector_name, user_id, raises) ==
    /\ call' = [fn |-> "parse_sector_id", name |-> sector_name, sector_id |-> None,
                user_id |-> user_id, raises |-> raises,
                result |-> parse_sector_id(sector_name, user_id, raises)]
    /\ UNCHANGED <<sectors, warehouses, logdatas, conversation_states,
                   user_questions, user_responses, now, turn, requests, running,
                   state_lock>>

CallWarehouse(warehouse_name, sector_id, user_id, raises) ==
    /\ call' = [fn |-> "parse_warehouse_id", name |-> warehouse_name,
                sector_id |-> sector_id, user_id |-> user_id, raises |-> raises,
                result |-> parse_warehouse_id(warehouse_name, sector_id, user_id, raises)]
    /\ UNCHANGED <<sectors, warehouses, logdatas, conversation_states,
                   user_questions, user_responses, now, turn, requests, running,
                   state_lock>>

InitResolve ==
    /\ sectors \in Collections(SectorDocs, MaxSectors)
    /\ warehouses \in Collections(WarehouseDocs, MaxWarehouses)
    /\ logdatas = <<>>
    /\ conversation_states = EmptyDict
    /\ user_questions = EmptyDict
    /\ user_responses = EmptyDict
    /\ now = 0
    /\ turn = NoTurn
    /\ call = NoCall
    /\ requests = <<>>
    /\ running = 0
    /\ state_lock = 0

NextResolve ==
    \/ \E n \in SectorNames, u \in Users, r \in BOOLEAN : CallSector(n, u, r)
    \/ \E n \in WarehouseNames, sid \in SectorIds, u \in Users, r \in BOOLEAN :
          CallWarehouse(n, sid, u, r)

SpecResolve == InitResolve /\ [][NextResolve]_vars

-----------------------------------------------------------------------------
(* detect_intent on its own, called with any message *)

CallIntent(user_message) ==
    /\ call' = [fn |-> "detect_intent", name |-> user_message, sector_id |-> None,
                user_id |-> None, raises |-> FALSE, result |-> Intents[user_message]]
    /\ UNCHANGED <<sectors, warehouses, logdatas, conversation_states,
                   user_questions, user_responses, now, turn, requests, running,
                   state_lock>>

NextClassify == \E m \in ClassifyMessages : CallIntent(m)

SpecClassify == Init /\ [][NextClassify]_vars

-----------------------------------------------------------------------------
(* The chat turn step by step, with requests that arrive concurrently.       *)
(* chat_endpoint is a coroutine (async def) that never awaits: the event     *)
(* loop runs one handler from its first line to its return before it starts  *)
(* another.  state_lock is taken and released inside get_conversation_state. *)

ConcMessages == {"add new log in warehouse 1 in sector 1", "50", "abc"}

NoValue == [kind |-> "nan", m |-> 0, e |-> 0]

Pc(r) == requests[r].pc

\* The handler r has been started and has not returned.
InProgress(r) == Pc(r) \notin {"start", "done"}

\* Handlers run as threads of a pool (a plain def endpoint): any may step.
Scheduled_Threaded(r) == TRUE

\* The event loop executes r: it is the running handler, or none is running
\* and r has not started.
Scheduled(r) == running = r \/ (running = 0 /\ Pc(r) = "start")

Goto(r, pc) == requests' = [requests EXCEPT ![r].pc = pc]

\* The handler returns `response`, or `raised` escapes it.
Finish(r, response, raised) ==
    /\ requests' = [requests EXCEPT ![r].pc = "done"]
    /\ running' = 0
    /\ user_responses' =
          IF raised = None
          THEN RecordResponse(WithDeque(user_responses, requests[r].user_id),
                              requests[r].user_id, response)
          ELSE user_responses
    /\ turn' = [user_id |-> requests[r].user_id, message |-> requests[r].message,
                response |-> response, raised |-> raised,
                failed |-> requests[r].failed]

Receive(user_id, user_message) ==
    /\ Len(requests) < MaxRequests
    /\ requests' = Append(requests, [user_id |-> user_id, message |-> user_message,
                                     pc |-> "start", value |-> NoValue,
                                     failed |-> None])
    /\ UNCHANGED <<sectors, warehouses, logdatas, conversation_states, user_questions,
                   user_responses, now, turn, call, running, state_lock>>

\* Lines 323-336
Begin(r) ==
    /\ Pc(r) = "start" /\ Scheduled(r)
    /\ running' = r
    /\ now' = now + 1
    /\ user_questions' = RecordQuestion(user_questions, requests[r].user_id,
                                        requests[r].message)
    /\ user_responses' = WithDeque(user_responses, requests[r].user_id)
    /\ Goto(r, "lock")
    /\ UNCHANGED <<sectors, warehouses, logdatas, conversation_states, turn, call,
                   state_lock>>

\* Line 109: with state_lock
AcquireLock(r) ==
    /\ Pc(r) = "lock" /\ Scheduled(r)
    /\ state_lock = 0
    /\ state_lock' = r
    /\ Goto(r, "get")
    /\ UNCHANGED <<sectors, warehouses, logdatas, conversation_states, user_questions,
                   user_responses, now, turn, call, running>>

\* Lines 110-112: get or create the session, and leave the with block
GetState(r) ==
    /\ Pc(r) = "get" /\ Scheduled(r)
    /\ conversation_states' = WithSession(conversation_states, requests[r].user_id, now)
    /\ state_lock' = 0
    /\ Goto(r, "stage")
    /\ UNCHANGED <<sectors, warehouses, logdatas, user_questions, user_responses,
                   now, turn, call, running>>

\* Line 342
CheckStage(r) ==
    /\ Pc(r) = "stage" /\ Scheduled(r)
    /\ Goto(r, IF conversation_states[requests[r].user_id].stage = "collecting_inventory"
               THEN "parse" ELSE "dispatch")
    /\ UNCHANGED <<sectors, warehouses, logdatas, conversation_states, user_questions,
                   user_responses, now, turn, call, running, state_lock>>

\* Line 345, and lines 383-386 for a ValueError
Parse(r) ==
    /\ Pc(r) = "parse" /\ Scheduled(r)
    /\ IF Floats[requests[r].message].ok
       THEN /\ requests' = [requests EXCEPT ![r].pc = "store",
                                            ![r].value = Floats[requests[r].message].value]
            /\ UNCHANGED <<user_responses, turn, running>>
       ELSE Finish(r, RespInvalidNumber, None)
    /\ UNCHANGED <<sectors, warehouses, logdatas, conversation_states, user_questions,
                   now, call, state_lock>>

\* Lines 347-355
Store(r) ==
    /\ Pc(r) = "store" /\ Scheduled(r)
    /\ LET st == conversation_states[requests[r].user_id]
       IN  IF st.current_column_index >= Len(st.pending_columns)
           THEN /\ Finish(r, None, "IndexError")
                /\ UNCHANGED conversation_states
           ELSE /\ conversation_states' =
                      Put(conversation_states, requests[r].user_id,
                          StoreValue(st, requests[r].value))
                /\ Goto(r, "check")
                /\ UNCHANGED <<user_responses, turn, running>>
    /\ UNCHANGED <<sectors, warehouses, logdatas, user_questions, now, call, state_lock>>

\* Line 358, and lines 375-382 when columns are left
CheckDone(r) ==
    /\ Pc(r) = "check" /\ Scheduled(r)
    /\ LET st == conversation_states[requests[r].user_id]
       IN  IF st.current_column_index >= Len(st.pending_columns)
           THEN /\ Goto(r, "save")
                /\ UNCHANGED <<user_responses, turn, running>>
           ELSE Finish(r, RespNextColumn(
                             st.pending_columns[st.current_column_index + 1].title), None)
    /\ UNCHANGED <<sectors, warehouses, logdatas, conversation_states, user_questions,
                   now, call, state_lock>>

\* Lines 359-364
Save(r, raises) ==
    /\ Pc(r) = "save" /\ Scheduled(r)
    /\ LET st == conversation_states[requests[r].user_id]
       IN  logdatas' = add_log_data(st.warehouse_id, requests[r].user_id, st.log_data,
                                    raises)
    /\ requests' = [requests EXCEPT ![r].pc = "reset",
                                    ![r].failed = IF raises THEN "add_log_data" ELSE None]
    /\ UNCHANGED <<sectors, warehouses, conversation_states, user_questions,
                   user_responses, now, turn, call, running, state_lock>>

\* Lines 366-382
Reset(r) ==
    /\ Pc(r) = "reset" /\ Scheduled(r)
    /\ conversation_states' =
          Put(conversation_states, requests[r].user_id,
              ResetState(conversation_states[requests[r].user_id], now))
    /\ Finish(r, RespSuccess, None)
    /\ UNCHANGED <<sectors, warehouses, logdatas, user_questions, now, call, state_lock>>

\* Lines 388-475
DispatchStep(r, fault) ==
    /\ Pc(r) = "dispatch" /\ Scheduled(r)
    /\ \E out \in {Dispatch(conversation_states[requests[r].user_id],
                            requests[r].user_id, requests[r].message, fault,
                            user_questions)} :
          /\ conversation_states' =
                Put(conversation_states, requests[r].user_id, out.state)
          /\ requests' = [requests EXCEPT ![r].pc = "done"]
          /\ running' = 0
          /\ user_responses' =
                IF out.raised = None
                THEN RecordResponse(user_responses, requests[r].user_id, out.response)
                ELSE user_responses
          /\ turn' = [user_id |-> requests[r].user_id,
                      message |-> requests[r].message, response |-> out.response,
                      raised |-> out.raised, failed |-> out.failed]
    /\ UNCHANGED <<sectors, warehouses, logdatas, user_questions, now, call, state_lock>>

NextConc ==
    \/ \E u \in Users, m \in ConcMessages : Receive(u, m)
    \/ \E r \in 1..Len(requests) : Begin(r)
    \/ \E r \in 1..Len(requests) : AcquireLock(r)
    \/ \E r \in 1..Len(requests) : GetState(r)
    \/ \E r \in 1..Len(requests) : CheckStage(r)
    \/ \E r \in 1..Len(requests) : Parse(r)
    \/ \E r \in 1..Len(requests) : Store(r)
    \/ \E r \in 1..Len(requests) : CheckDone(r)
    \/ \E r \in 1..Len(requests), raises \in BOOLEAN : Save(r, raises)
    \/ \E r \in 1..Len(requests) : Reset(r)
    \/ \E r \in 1..Len(requests), f \in Faults : DispatchStep(r, f)

SpecConc == Init /\ [][NextConc]_vars

-----------------------------------------------------------------------------
(* Properties of a chat turn (specification Spec) *)

Owned(doc, user_id) == doc.creator = ObjectId(user_id)

\* The documents of a collection with the given _id
InStore(collection, id) ==
    {collection[i] : i \in {j \in 1..Len(collection) : collection[j]._id = id}}

Session(u) == conversation_states[u]

Collecting(u) ==
    u \in DOMAIN conversation_states /\ Session(u).stage = "collecting_inventory"

\* The step is a turn of u that finds the session collecting inventory.
CollectingTurn(u) == Collecting(u) /\ now' # now /\ turn'.user_id = u

\* The step is a turn of u with a valid number for the last pending column.
CompletingTurn(u) ==
    /\ CollectingTurn(u)
    /\ Floats[turn'.message].ok
    /\ Session(u).current_column_index + 1 = Len(Session(u).pending_columns)

DataIndexes(columns) == {columns[i].dataIndex : i \in 1..Len(columns)}

\* The record the sub-dialog of u has to insert when the step completes it.
CompletedRecord(u) ==
    [warehouse |-> Session(u).warehouse_id,
     creator   |-> ObjectId(u),
     logData   |-> Put(Session(u).log_data,
                       Session(u).pending_columns[Session(u).current_column_index + 1].dataIndex,
                       Floats[turn'.message].value)]

\* C1: the turn that supplies the last of the n valid numbers of a sub-dialog
\* inserts exactly one LogRecord, owned by the user, for the warehouse resolved
\* at AddLog, with the keys day and the n data-indexes and this reply under the
\* last column, and leaves the session in Idle.
C1_SubDialogInsertsOneRecord ==
    [][\A u \in Users :
         CompletingTurn(u) =>
           /\ logdatas' = Append(logdatas, CompletedRecord(u))
           /\ DOMAIN CompletedRecord(u).logData
                 = {"day"} \cup DataIndexes(Session(u).pending_columns)
           /\ conversation_states'[u].stage = "initial"]_vars

\* The same when insert_one does not raise (what is left of C1 then).
C1_InsertsOneRecordUnlessStoreFails ==
    [][\A u \in Users :
         CompletingTurn(u) /\ turn'.failed = None =>
           /\ logdatas' = Append(logdatas, CompletedRecord(u))
           /\ DOMAIN CompletedRecord(u).logData
                 = {"day"} \cup DataIndexes(Session(u).pending_columns)
           /\ conversation_states'[u].stage = "initial"]_vars

\* C2: a reply that is not a number, sent while the session collects
\* inventory, leaves the session as it is, writes no LogRecord and is answered
\* with the fixed message asking for a valid number.
C2_InvalidNumberChangesNothing ==
    [][\A u \in Users :
         CollectingTurn(u) /\ ~Floats[turn'.message].ok =>
           /\ conversation_states'[u] = conversation_states[u]
           /\ logdatas' = logdatas
           /\ turn'.response = RespInvalidNumber
           /\ turn'.raised = None]_vars

\* A rejected reply on the second column: the cursor stays on it.
C2_Witness ==
    /\ turn.user_id = "a1"
    /\ turn.response = RespInvalidNumber
    /\ Collecting("a1")
    /\ Session("a1").current_column_index = 1
    /\ DOMAIN Session("a1").log_data = {"day", "qty"}

\* C3: the completion message is returned only by a turn that persisted a new
\* LogRecord; a turn whose insert fails does not return it.
C3_SuccessOnlyWhenPersisted ==
    [][now' # now /\ turn'.response = RespSuccess =>
         Len(logdatas') = Len(logdatas) + 1]_vars

NotFoundWording(response) ==
    StartsWith(response, "I couldn't find Sector ")
      \/ StartsWith(response, "I couldn't find Warehouse ")

\* C4: a turn whose sector or warehouse lookup fails with a store error is
\* not answered with the wording of an entity that does not exist.
C4_StoreErrorIsNotNotFound ==
    turn.failed \in {"parse_sector_id", "parse_warehouse_id"}
        => ~NotFoundWording(turn.response)

\* C5: every chat turn ends with a text response, none with an exception that
\* escapes the handler.
C5_EveryTurnResponds == turn.raised = None

\* C10: a turn of one user leaves the session, the questions and the answers
\* of every other user unchanged, and a LogRecord it writes is owned by the
\* user of the turn.
C10_OtherUsersUntouched ==
    [][\A u \in Users :
         now' # now /\ turn'.user_id # u =>
           /\ (u \in DOMAIN conversation_states') = (u \in DOMAIN conversation_states)
           /\ (u \in DOMAIN user_questions') = (u \in DOMAIN user_questions)
           /\ (u \in DOMAIN user_responses') = (u \in DOMAIN user_responses)
           /\ u \in DOMAIN conversation_states
                 => conversation_states'[u] = conversation_states[u]
           /\ u \in DOMAIN user_questions => user_questions'[u] = user_questions[u]
           /\ u \in DOMAIN user_responses => user_responses'[u] = user_responses[u]
           /\ \A i \in (Len(logdatas) + 1)..Len(logdatas') :
                 /\ logdatas'[i].creator = ObjectId(turn'.user_id)
                 /\ logdatas'[i].creator # ObjectId(u)]_vars

\* A turn of b2 that completes its sub-dialog while a1 is in the middle of one.
C10_Witness ==
    /\ turn.user_id = "b2"
    /\ turn.response = RespSuccess
    /\ Len(logdatas) = 1
    /\ Collecting("a1")
    /\ user_questions["a1"] = <<"add new log in warehouse 1 in sector 1">>

\* The step is a turn of u, and u is the user of no other step.
TurnOf(u) == now' # now /\ turn'.user_id = u

\* The step is a turn of u that takes its session into collecting inventory.
AcceptingTurn(u) == TurnOf(u) /\ ~Collecting(u) /\ Collecting(u)'

\* The session a turn of u finds: the stored one, or the one it creates.
Found(u) == WithSession(conversation_states, u, now')[u]

\* C16: every prompt of a sub-dialog has the form "Please provide inventory
\* count for <title>.": the one for the first pending column when the add-log
\* request is accepted, and the one for the column under the new cursor after
\* a valid number that does not fill the last column.
C16_PromptsHaveOneForm ==
    [][\A u \in Users :
         /\ AcceptingTurn(u) =>
               turn'.response
                  = RespFirstColumn(conversation_states'[u].pending_columns[1].title)
         /\ CollectingTurn(u) /\ Floats[turn'.message].ok /\ Collecting(u)' =>
               turn'.response
                  = RespFirstColumn(conversation_states'[u].pending_columns[
                        conversation_states'[u].current_column_index + 1].title)]_vars

\* C17: the day of the record under construction is the time of the turn that
\* accepts the add-log request (the record persisted at the end of the
\* sub-dialog carries that day).
C17_DaySeededAtStart ==
    [][\A u \in Users :
         AcceptingTurn(u) =>
            conversation_states'[u].log_data["day"] = IsoFormat(now')]_vars

\* The columns of the warehouse the add-log request of the message resolves
\* to for u, when its sector and its warehouse are found.
Resolved(u, message) ==
    LET intent == Intents[message]
        sector_id == parse_sector_id(intent[3], u, FALSE)
        warehouse_id == parse_warehouse_id(intent[2], sector_id, u, FALSE)
    IN  IF intent[1] # "add_log" \/ sector_id = None \/ warehouse_id = None
        THEN {}
        ELSE InStore(warehouses, warehouse_id)

\* C19: an add-log request in Idle that resolves a warehouse with no column
\* but the day is answered with the no-inventory-columns message, leaves the
\* session as it is and in Idle, and writes no LogRecord.
C19_NoColumnsStaysIdle ==
    [][\A u \in Users :
         /\ TurnOf(u) /\ ~Collecting(u) /\ turn'.failed = None
         /\ \E w \in Resolved(u, turn'.message) :
               \A i \in 1..Len(w.columns) : w.columns[i].dataIndex = "day"
         => /\ turn'.response = RespNoColumns
            /\ conversation_states'[u] = Found(u)
            /\ conversation_states'[u].stage = "initial"
            /\ logdatas' = logdatas]_vars

\* a1 asks for a log in its warehouse without inventory columns, after b2 has
\* started a sub-dialog.
C19_Witness ==
    /\ turn.user_id = "a1"
    /\ turn.message = "add new log in warehouse 2 in sector 1"
    /\ turn.response = RespNoColumns
    /\ Session("a1").stage = "initial" /\ Session("a1").pending_columns = <<>>
    /\ Collecting("b2")

-----------------------------------------------------------------------------
(* Properties of the resolver (specification SpecResolve) *)

\* C6: parse_sector_id returns only a sector of the store that the user owns
\* and that is not deleted, and each of its three tiers yields only such
\* sectors.
C6_SectorOwnedAndLive ==
    /\ call.fn = "parse_sector_id" /\ call.result # None =>
          /\ InStore(sectors, call.result) # {}
          /\ \A s \in InStore(sectors, call.result) :
                Owned(s, call.user_id) /\ ~s.deleted
    /\ \A n \in SectorNames, u \in Users :
          LET tiers == SectorExact(n, ObjectId(u)) \o SectorIgnoreCase(n, ObjectId(u))
                          \o SectorBySuffix(n, ObjectId(u))
          IN  \A i \in 1..Len(tiers) : Owned(tiers[i], u) /\ ~tiers[i].deleted

\* The suffix tier answers for a1 although b2's "Sector 1" comes first.
C6_Witness ==
    /\ call.fn = "parse_sector_id"
    /\ call.name = "Sector 1" /\ call.user_id = "a1"
    /\ call.result = "5e05"
    /\ Len(sectors) = 2 /\ sectors[1]._id = "5e02"

\* C7: parse_warehouse_id returns only a warehouse of the store whose name is
\* the given one up to letter case, whose sector is the given sector and whose
\* owner is the user: a name that only ends alike is not accepted.
C7_WarehouseScopedJointly ==
    call.fn = "parse_warehouse_id" /\ call.result # None =>
       /\ InStore(warehouses, call.result) # {}
       /\ \A w \in InStore(warehouses, call.result) :
             /\ Lower(w.name) = Lower(call.name)
             /\ w.sector = call.sector_id
             /\ Owned(w, call.user_id)

C7_Witness ==
    /\ call.fn = "parse_warehouse_id"
    /\ call.name = "WAREHOUSE 1" /\ call.user_id = "a1" /\ call.sector_id = "5e05"
    /\ call.result = "8f04"

\* What the three tiers give in order: the first exact match, else the first
\* case-insensitive match, else the first suffix match, else None.
FirstId(docs) == IF docs = <<>> THEN None ELSE docs[1]._id

TierResult(n, u) ==
    IF SectorExact(n, ObjectId(u)) # <<>> THEN FirstId(SectorExact(n, ObjectId(u)))
    ELSE IF SectorIgnoreCase(n, ObjectId(u)) # <<>>
    THEN FirstId(SectorIgnoreCase(n, ObjectId(u)))
    ELSE FirstId(SectorBySuffix(n, ObjectId(u)))

\* C8: parse_sector_id returns the sector of the first tier that finds one,
\* and None only when no tier finds any.
C8_FirstTierWins ==
    call.fn = "parse_sector_id" => call.result = TierResult(call.name, call.user_id)

\* The same when no query raises (what is left of C8 then).
C8_FirstTierWinsUnlessStoreFails ==
    call.fn = "parse_sector_id" /\ ~call.raises
        => call.result = TierResult(call.name, call.user_id)

-----------------------------------------------------------------------------
(* Properties of concurrent requests (specification SpecConc) *)

Started == {r \in 1..Len(requests) : InProgress(r)}

\* The handler is between fetching the session and its last write to it.
InReadModifyWrite(r) ==
    Pc(r) \in {"stage", "parse", "store", "check", "save", "reset", "dispatch"}

\* C9: a lock is held by the turn for the whole read-modify-write of the
\* session, so that turns do not interleave.
C9_LockHeldAcrossTurn ==
    \A r \in 1..Len(requests) : InReadModifyWrite(r) => state_lock = r

\* C9 as the code has it: turns are serialized by the event loop, which runs
\* one handler at a time to its end, while state_lock is free during the
\* read-modify-write.  No handler finds the cursor past the end of the pending
\* columns, no two LogRecords come from one seeded record, and between turns a
\* collecting session has its cursor inside the pending columns.
C9_TurnsSerialized ==
    /\ Cardinality(Started) <= 1
    /\ \A r \in Started : running = r
    /\ turn.raised # "IndexError"
    /\ \A i, j \in 1..Len(logdatas) :
          i # j => logdatas[i].logData["day"] # logdatas[j].logData["day"]
    /\ Started = {} =>
          \A u \in DOMAIN conversation_states :
             Collecting(u) =>
                Session(u).current_column_index < Len(Session(u).pending_columns)

\* Two valid replies of b2 for its last pending column are in flight: one is
\* about to save the record, the other has not been started.
C9_Witness ==
    /\ Len(requests) = 3
    /\ requests[2].user_id = "b2" /\ requests[3].user_id = "b2"
    /\ requests[2].message = "50" /\ requests[3].message = "50"
    /\ {Pc(2), Pc(3)} = {"save", "start"}
    /\ state_lock = 0

-----------------------------------------------------------------------------
(* Properties of the intent detection (specification SpecClassify) *)

\* The intents in the order detect_intent tests their patterns.
IntentNames ==
    <<"list_sectors", "list_warehouses_in_sector", "add_log", "greeting",
      "previous_questions">>

\* The i-th test of detect_intent succeeds on the lowercased message.
PatternMatches(i, message) ==
    CASE i = 1 -> Search(ReShowSectorsList, message).found
                    \/ Search(ReListSectors, message).found
      [] i = 2 -> Search(ReWarehousesInSector, message).found
      [] i = 3 -> Search(ReAddLog, message).found
      [] i = 4 -> Search(ReGreeting, message).found
                    \/ Search(ReWhoAreYou, message).found
      [] i = 5 -> Search(RePreviousQuestions, message).found

Matched == [m \in ClassifyMessages |->
               {i \in 1..Len(IntentNames) : PatternMatches(i, Lower(m))}]

Classified == call.fn = "detect_intent"

\* C13: detect_intent returns the intent of the first pattern, in the order
\* list_sectors, list_warehouses_in_sector, add_log, greeting,
\* previous_questions, that the lowercased message matches, and unknown only
\* when it matches none.
C13_FirstPatternWins ==
    Classified =>
       IF Matched[call.name] = {}
       THEN call.result = <<"unknown">>
       ELSE call.result[1] = IntentNames[First(Matched[call.name])]

\* A message that matches the patterns of greeting and of previous_questions.
C13_Witness ==
    /\ Classified
    /\ call.name = "previous questions Hello"
    /\ Matched[call.name] = {4, 5}
    /\ call.result = <<"greeting">>

\* The tokens the add-log pattern captures in the lowercased message.
AddLogTokens(message) ==
    LET log_match == Search(ReAddLog, message)
    IN  <<"add_log", Canonical("Warehouse ", log_match.g[1]),
          Canonical("Sector ", log_match.g[2])>>

\* C14: every message that matches the add-log pattern (and not the one of
\* list_sectors) is classified add_log with its two tokens, also when it
\* matches the warehouses-in-sector pattern.
C14_AddLogNotShadowed ==
    Classified /\ 3 \in Matched[call.name] /\ 1 \notin Matched[call.name]
        => call.result = AddLogTokens(Lower(call.name))

Contains(s, phrase) == Search(Lit(phrase), s).found

RecallWordings == {"previous questions", "what did i ask", "what were my questions"}

\* C15: a message that matches none of the first four patterns and contains,
\* in any letter case, one of the recall wordings is classified
\* previous_questions.
C15_RecallWordingsClassified ==
    Classified
      /\ Matched[call.name] \cap 1..4 = {}
      /\ (\E w \in RecallWordings : Contains(Lower(call.name), w))
        => call.result = <<"previous_questions">>

-----------------------------------------------------------------------------
(* Properties of the history (specification SpecHistory) *)

\* The last n elements of a sequence.
LastN(seq, n) == IF Len(seq) <= n THEN seq ELSE SubSeq(seq, Len(seq) - n + 1, Len(seq))

\* The requests of u handled so far, and those of them that are no recall
\* phrase.
Handled(u) == SelectSeq(requests, LAMBDA r : r.user_id = u)

Asked(u) == SelectSeq(Handled(u), LAMBDA r : Trimmed[r.message] \notin RecallPhrases)

\* C11: the questions and the answers kept for a user are at most 10 each,
\* and are the last (up to 10) appended ones in the order of their arrival.
C11_HistoryKeepsLastTen ==
    \A u \in DOMAIN user_questions :
       /\ Len(user_questions[u]) <= 10 /\ Len(user_responses[u]) <= 10
       /\ user_questions[u]
             = LastN([i \in 1..Len(Asked(u)) |-> Asked(u)[i].message], 10)
       /\ user_responses[u]
             = LastN([i \in 1..Len(Handled(u)) |-> Handled(u)[i].response], 10)

\* Twelve questions were appended: the first two are gone, the third is the
\* oldest one kept.
C11_Witness ==
    /\ Len(Asked("a1")) = 12
    /\ requests[1].message = "hello" /\ requests[2].message = "hello"
    /\ requests[3].message = "abc"
    /\ Len(user_questions["a1"]) = 10
    /\ user_questions["a1"][1] = "abc"
    /\ user_questions["a1"][10] = requests[12].message

-----------------------------------------------------------------------------
(* Properties of the dialog (specification SpecDialog) *)

\* p occurs in s.
HasSubstring(s, p) ==
    \E i \in 1..(Len(s) - Len(p) + 1) : SubSeq(s, i, i + Len(p) - 1) = p

\* C12: a turn whose text, trimmed and in lower case, is a recall phrase
\* leaves the questions of the user as they are, in any stage of the session,
\* and no response contains a recall phrase.
C12_RecallNotRecorded ==
    [][\A u \in Users :
         TurnOf(u) =>
           /\ Trimmed[turn'.message] \in RecallPhrases
                 => user_questions'[u] = WithDeque(user_questions, u)[u]
           /\ \A i \in 1..Len(user_questions'[u]) :
                 Trimmed[user_questions'[u][i]] \notin RecallPhrases
           /\ \A response \in {Lower(turn'.response)}, phrase \in RecallPhrases :
                 ~HasSubstring(response, phrase)]_vars

\* The recall phrase is sent twice after one question: both times the list
\* holds that question alone.
C12_Witness ==
    /\ turn.user_id = "a1"
    /\ turn.message = " What were my PREVIOUS questions? "
    /\ turn.response
          = "Your previous questions were:\n1. add new log in warehouse 1 in sector 2"
    /\ Len(user_responses["a1"]) = 3
    /\ user_responses["a1"][2] = turn.response

\* C18: an add-log request in Idle whose sector is not resolved is answered
\* with the sector-not-found message, one whose sector is resolved and whose
\* warehouse is not with the warehouse-not-found message; both leave the
\* session as it is and write no LogRecord.
C18_FailedResolutionStaysIdle ==
    [][\A u \in Users :
         TurnOf(u) /\ ~Collecting(u) /\ Intents[turn'.message][1] = "add_log" =>
           LET intent == Intents[turn'.message]
               sector_id == parse_sector_id(intent[3], u, FALSE)
               warehouse_id == parse_warehouse_id(intent[2], sector_id, u, FALSE)
               unchanged == /\ conversation_states'[u] = Found(u)
                            /\ conversation_states'[u].stage = "initial"
                            /\ logdatas' = logdatas
           IN  /\ sector_id = None =>
                     turn'.response = RespSectorNotFound(intent[3]) /\ unchanged
               /\ sector_id # None /\ warehouse_id = None =>
                     /\ turn'.response = RespWarehouseNotFound(intent[2], intent[3])
                     /\ unchanged]_vars

\* b2 names a sector it does not have, then a warehouse its sector does not
\* hold.
C18_Witness ==
    /\ turn.user_id = "b2" /\ turn.failed = None
    /\ turn.message = "add new log in warehouse 2 in sector 1"
    /\ turn.response = "I couldn't find Warehouse Warehouse 2 in Sector Sector 1."
    /\ user_responses["b2"]
          = <<"I couldn't find Sector Sector 2 in your account.", turn.response>>
    /\ Session("b2") = ConversationState(1)
    /\ logdatas = <<>>

\* The columns but the day column, in their order.
RECURSIVE WithoutDay(_)
WithoutDay(columns) ==
    IF columns = <<>> THEN <<>>
    ELSE IF Head(columns).dataIndex = "day" THEN WithoutDay(Tail(columns))
    ELSE <<Head(columns)>> \o WithoutDay(Tail(columns))

\* C20: the pending columns are those the warehouse has, without the day
\* column and in their order, when the add-log request is accepted; while the
\* session collects inventory they and the warehouse and sector of the session
\* stay as they are, whatever the step is.
C20_PendingColumnsFixed ==
    [][\A u \in Users :
         /\ AcceptingTurn(u) =>
               \E w \in Resolved(u, turn'.message) :
                  /\ conversation_states'[u].pending_columns = WithoutDay(w.columns)
                  /\ conversation_states'[u].warehouse_id = w._id
                  /\ conversation_states'[u].sector_id = w.sector
         /\ Collecting(u) /\ Collecting(u)' =>
               /\ conversation_states'[u].pending_columns = Session(u).pending_columns
               /\ conversation_states'[u].warehouse_id = Session(u).warehouse_id
               /\ conversation_states'[u].sector_id = Session(u).sector_id]_vars

\* a1 is in a sub-dialog on a warehouse whose columns were replaced after it
\* began, and sends the add-log request again.
C20_Witness ==
    /\ Collecting("a1")
    /\ Session("a1").warehouse_id = "8f01"
    /\ Session("a1").pending_columns = <<ColQty, ColWeight>>
    /\ warehouses[1].columns = EditedColumns
    /\ turn.user_id = "a1"
    /\ turn.message = "add new log in warehouse 1 in sector 1"
    /\ turn.response = RespInvalidNumber

-----------------------------------------------------------------------------
(* Properties of the session between turns (specification Spec) *)

\* C21: a session that is not collecting inventory has its defaults: no
\* warehouse and no sector, no pending column, the cursor at 0 and a record
\* under construction with the key "day" alone; a warehouse or a sector is
\* set only in a session that collects inventory.
C21_IdleHasDefaults ==
    \A u \in DOMAIN conversation_states :
       /\ ~Collecting(u) =>
             /\ Session(u).stage = "initial"
             /\ Session(u).warehouse_id = None
             /\ Session(u).sector_id = None
             /\ Session(u).pending_columns = <<>>
             /\ Session(u).current_column_index = 0
             /\ DOMAIN Session(u).log_data = {"day"}
       /\ Session(u).warehouse_id # None \/ Session(u).sector_id # None
             => Collecting(u)

\* a1 has completed a sub-dialog of two columns: the record is stored and the
\* session is back in Idle.
C21_Witness ==
    /\ turn.user_id = "a1" /\ turn.response = RespSuccess
    /\ Len(logdatas) = 1
    /\ DOMAIN logdatas[1].logData = {"day", "qty", "weight"}
    /\ ~Collecting("a1")
    /\ DOMAIN Session("a1").log_data = {"day"}

-----------------------------------------------------------------------------
(* Properties of the read-only requests (specification SpecList) *)

\* The sectors u owns that are not deleted, and the warehouses u owns in a
\* sector, in the order of the store.
OwnSectors(u) == SelectSeq(sectors, LAMBDA s : Owned(s, u) /\ ~s.deleted)

OwnWarehouses(u, sector_id) ==
    SelectSeq(warehouses, LAMBDA w : Owned(w, u) /\ w.sector = sector_id)

\* The step is a turn of u in Idle whose message has the given intent.
IdleTurn(u, intent_name) ==
    TurnOf(u) /\ ~Collecting(u) /\ Intents[turn'.message][1] = intent_name

\* The turn leaves the session of u and the store as they are.
ReadOnly(u) ==
    /\ conversation_states'[u] = Found(u)
    /\ sectors' = sectors /\ warehouses' = warehouses /\ logdatas' = logdatas

\* What a request for the sectors of u is answered with, after the store.
SectorsReply(u) ==
    IF OwnSectors(u) = <<>> THEN RespNoSectors
    ELSE "Your created sectors are: " \o Join(Names(OwnSectors(u))) \o "."

\* C22: a request for the sectors in Idle is answered with the no-sectors
\* message exactly when the user owns no sector that is not deleted, and with
\* the names of exactly those sectors, joined by ", ", otherwise; the reply is
\* a function of those sectors, and the turn changes neither the session nor
\* the store.
C22_SectorsListed ==
    [][\A u \in Users :
         IdleTurn(u, "list_sectors") =>
           /\ (turn'.response = RespNoSectors) <=> (OwnSectors(u) = <<>>)
           /\ turn'.response = SectorsReply(u)
           /\ ReadOnly(u)]_vars

\* The same when the query of get_user_sectors does not raise (what is left
\* of C22 then).
C22_SectorsListedUnlessStoreFails ==
    [][\A u \in Users :
         IdleTurn(u, "list_sectors") /\ turn'.failed = None =>
           /\ (turn'.response = RespNoSectors) <=> (OwnSectors(u) = <<>>)
           /\ turn'.response = SectorsReply(u)
           /\ ReadOnly(u)]_vars

\* What a request for the warehouses of the named sector is answered with,
\* after the store.
WarehousesReply(u, sector_name) ==
    LET sector_id == TierResult(sector_name, u)
    IN  IF sector_id = None THEN RespSectorNotFound(sector_name)
        ELSE IF OwnWarehouses(u, sector_id) = <<>> THEN RespNoWarehouses(sector_name)
        ELSE "Warehouses in " \o sector_name \o " are: "
                \o Join(Names(OwnWarehouses(u, sector_id))) \o "."

\* The names of the warehouses of the store that u does not own.
ForeignNames(u) ==
    {warehouses[i].name : i \in {j \in 1..Len(warehouses) : ~Owned(warehouses[j], u)}}

\* C23: a request for the warehouses of a sector in Idle is answered with the
\* sector-not-found message when the sector does not resolve for the user,
\* with the no-warehouses message when it does and the user owns no warehouse
\* in it, and with the names of exactly the warehouses the user owns in it
\* otherwise; no warehouse of another user is named, and the turn changes
\* neither the session nor the store.
C23_WarehousesListed ==
    [][\A u \in Users :
         IdleTurn(u, "list_warehouses_in_sector") =>
           /\ turn'.response = WarehousesReply(u, Intents[turn'.message][2])
           /\ \A name \in ForeignNames(u) : ~HasSubstring(turn'.response, name)
           /\ ReadOnly(u)]_vars

\* The same when no query of the turn raises (what is left of C23 then).
C23_WarehousesListedUnlessStoreFails ==
    [][\A u \in Users :
         IdleTurn(u, "list_warehouses_in_sector") /\ turn'.failed = None =>
           /\ turn'.response = WarehousesReply(u, Intents[turn'.message][2])
           /\ \A name \in ForeignNames(u) : ~HasSubstring(turn'.response, name)
           /\ ReadOnly(u)]_vars

-----------------------------------------------------------------------------
(* Properties of the recall of the questions (specification SpecHistory) *)

Ordinals == <<"1", "2", "3", "4", "5", "6", "7", "8", "9", "10">>

\* The lines of the first n questions, each after a line break.
RECURSIVE QuestionLines(_, _)
QuestionLines(qs, n) ==
    IF n = 0 THEN ""
    ELSE QuestionLines(qs, n - 1) \o "\n" \o Ordinals[n] \o ". " \o qs[n]

\* C24: a request for the previous questions in Idle is answered with the
\* no-questions message exactly when the questions kept for the user are none
\* when the reply is made, and otherwise with all of them, oldest first, the
\* i-th on a line of its own that starts with its number i.
C24_RecallListsHistory ==
    [][\A u \in Users :
         IdleTurn(u, "previous_questions") =>
           /\ (turn'.response = RespNoQuestions) <=> (user_questions'[u] = <<>>)
           /\ user_questions'[u] # <<>> =>
                 turn'.response
                    = "Your previous questions were:"
                         \o QuestionLines(user_questions'[u], Len(user_questions'[u]))]_vars

\* The recall after eleven questions: ten lines, the second question first.
C24_Witness ==
    /\ turn.user_id = "a1"
    /\ turn.message = " What were my PREVIOUS questions? "
    /\ Len(Asked("a1")) = 11
    /\ requests[1].message = "hello" /\ requests[2].message = "abc"
    /\ requests[11].message = "hello"
    /\ StartsWith(turn.response, "Your previous questions were:\n1. abc\n2. ")
    /\ EndsWith(turn.response, "\n10. hello")

-----------------------------------------------------------------------------
(* Properties of the history bookkeeping of a turn (specification Spec) *)

\* The deque of u in a dict of deques before the turn (empty when u has
\* none), and the deque after one more entry.
Kept(dict, u) == WithDeque(dict, u)[u]

Pushed(dq, x) == LastN(Append(dq, x), 10)

\* C25: every turn, whether it finds the session in Idle or collecting
\* inventory, pushes its message to the questions of the user unless the
\* message is a recall phrase, and pushes its reply to the answers of the
\* user, whose newest entry is then the reply of the turn.
C25_HistoryAppendedEveryTurn ==
    [][\A u \in Users :
         TurnOf(u) =>
           /\ user_questions'[u]
                 = IF Trimmed[turn'.message] \in RecallPhrases
                   THEN Kept(user_questions, u)
                   ELSE Pushed(Kept(user_questions, u), turn'.message)
           /\ user_responses'[u] = Pushed(Kept(user_responses, u), turn'.response)
           /\ user_responses'[u][Len(user_responses'[u])] = turn'.response]_vars

\* The same for the turns that return a reply (what is left of C25 then).
C25_HistoryAppendedUnlessTurnFails ==
    [][\A u \in Users :
         TurnOf(u) /\ turn'.raised = None =>
           /\ user_questions'[u]
                 = IF Trimmed[turn'.message] \in RecallPhrases
                   THEN Kept(user_questions, u)
                   ELSE Pushed(Kept(user_questions, u), turn'.message)
           /\ user_responses'[u] = Pushed(Kept(user_responses, u), turn'.response)
           /\ user_responses'[u][Len(user_responses'[u])] = turn'.response]_vars

-----------------------------------------------------------------------------
(* Properties of a session that collects inventory (specification Spec) *)

\* The data-indexes of the first n columns.
FilledIndexes(columns, n) == {columns[i].dataIndex : i \in 1..n}

\* C26: a session that collects inventory has pending columns, a cursor that
\* points at one of them, a warehouse, and a record under construction whose
\* keys are "day" and the data-indexes of the columns before the cursor; no
\* turn fails on the column at the cursor.
C26_CursorInRange ==
    /\ \A u \in DOMAIN conversation_states :
          Collecting(u) =>
            /\ Session(u).pending_columns # <<>>
            /\ 0 <= Session(u).current_column_index
            /\ Session(u).current_column_index < Len(Session(u).pending_columns)
            /\ Session(u).warehouse_id # None
            /\ DOMAIN Session(u).log_data
                  = {"day"} \cup FilledIndexes(Session(u).pending_columns,
                                             Session(u).current_column_index)
    /\ turn.raised # "IndexError"

\* a1 has given the first of its two numbers and is asked for the second.
C26_Witness ==
    /\ Collecting("a1")
    /\ turn.user_id = "a1" /\ turn.message = "12.5"
    /\ turn.response = RespNextColumn("Weight")
    /\ Session("a1").current_column_index = 1
    /\ Len(Session("a1").pending_columns) = 2
    /\ Session("a1").log_data["qty"] = Floats["12.5"].value

\* The values the session of u still asks for.
Remaining(u) == Len(Session(u).pending_columns) - Session(u).current_column_index

\* C27: a turn that finds the session collecting inventory classifies no
\* intent and makes no lookup in the store: a message that is no number,
\* whatever its intent in Idle, gets the invalid-number reply and changes
\* nothing; a valid number lowers the count of the values still asked for by
\* one, and the session is back in Idle exactly when that count was one; no
\* other step takes a session out of collecting inventory.
C27_OnlyLastValueLeavesCollecting ==
    [][\A u \in Users :
         /\ CollectingTurn(u) =>
               /\ turn'.failed \in {None, "add_log_data"}
               /\ ~Floats[turn'.message].ok =>
                     /\ turn'.response = RespInvalidNumber
                     /\ conversation_states'[u] = Session(u)
                     /\ logdatas' = logdatas
               /\ Floats[turn'.message].ok /\ Remaining(u) > 1 =>
                     /\ Collecting(u)'
                     /\ Len(conversation_states'[u].pending_columns)
                           - conversation_states'[u].current_column_index
                         = Remaining(u) - 1
               /\ Floats[turn'.message].ok /\ Remaining(u) = 1 => ~Collecting(u)'
         /\ Collecting(u) /\ ~Collecting(u)' => CompletingTurn(u)]_vars

\* b2 greets in the middle of its sub-dialog of one column, is asked for a
\* number again, and gives it.
C27_Witness ==
    /\ turn.user_id = "b2" /\ turn.message = "50" /\ turn.failed = None
    /\ user_questions["b2"] = <<"add new log in warehouse 1 in sector 1", "hello", "50">>
    /\ user_responses["b2"]
          = <<RespFirstColumn("Quantity"), RespInvalidNumber, RespSuccess>>
    /\ ~Collecting("b2")
    /\ Len(logdatas) = 1

-----------------------------------------------------------------------------
(* Properties of the records written (specification SpecStore) *)

\* The warehouse of the record is one its creator owns, in a sector that the
\* creator owns and that is not deleted.
InOwnWarehouse(record) ==
    /\ InStore(warehouses, record.warehouse) # {}
    /\ \A w \in InStore(warehouses, record.warehouse) :
          /\ w.creator = record.creator
          /\ InStore(sectors, w.sector) # {}
          /\ \A s \in InStore(sectors, w.sector) :
                s.creator = record.creator /\ ~s.deleted

\* C28: a LogRecord is written only by the turn that completes a sub-dialog;
\* its owner is the user of that turn and its warehouse the one of the
\* session, which the turn that accepted the add-log request took from the
\* warehouses this user owned, in a sector this user owned and that was not
\* deleted, and which no step has changed since; so no record is in a
\* warehouse of another user.
C28_RecordsInOwnWarehouse ==
    [][/\ \A u \in Users :
            /\ AcceptingTurn(u) =>
                  \E w \in InStore(warehouses, conversation_states'[u].warehouse_id) :
                     /\ Owned(w, u)
                     /\ w.sector = conversation_states'[u].sector_id
                     /\ \E s \in InStore(sectors, w.sector) : Owned(s, u) /\ ~s.deleted
            /\ Collecting(u) /\ Collecting(u)' =>
                  conversation_states'[u].warehouse_id = Session(u).warehouse_id
       /\ logdatas' # logdatas =>
            \E u \in Users :
               /\ CompletingTurn(u)
               /\ Len(logdatas') = Len(logdatas) + 1
               /\ SubSeq(logdatas', 1, Len(logdatas)) = logdatas
               /\ logdatas'[Len(logdatas')].creator = ObjectId(u)
               /\ logdatas'[Len(logdatas')].warehouse = Session(u).warehouse_id
       /\ \A i \in 1..Len(logdatas') : InOwnWarehouse(logdatas'[i])]_vars

\* a1 has written a record into its warehouse; its sector of the same name
\* that is deleted comes first in the store.
C28_Witness ==
    /\ turn.user_id = "a1" /\ turn.response = RespSuccess
    /\ Len(logdatas) = 1
    /\ logdatas[1].warehouse = "8f01" /\ logdatas[1].creator = ObjectId("a1")
    /\ Len(sectors) = 2 /\ sectors[1]._id = "5e04" /\ sectors[2]._id = "5e01"

=============================================================================
